---------------------------- MODULE Spec2Model ----------------------------
(***************************************************************************)
(* Model of the LoadCell program: the HX711_GSR driver class               *)
(* (lib/HX711_GSR/HX711_GSR.h, HX711_GSR.cpp) and the menu application     *)
(* loadCell.cpp (unnamed/part_000).                                        *)
(*                                                                         *)
(* The specifications share the variables of the module:                   *)
(*   SpecRead  the serial protocol of getRawValue at the level of single   *)
(*             pin writes and reads, against an HX711 that behaves as the  *)
(*             README describes it (SpecReadLive: with the processor       *)
(*             executing the call it is in);                               *)
(*   SpecAvg   the loop of getAverageValue, one iteration per step;        *)
(*   Spec      start-up (initScale) and the menu handlers that act on the  *)
(*             calibration state, one handler per step;                    *)
(*   SpecLib   the setters, calculateCoefficients and calibrate of the     *)
(*             class called directly;                                      *)
(*   SpecStore the menu handlers that change what is saved,                *)
(*             storeCalibrationData one EEPROM.put per step, and the loss  *)
(*             of power;                                                   *)
(*   SpecPower the power commands among the commands that read the HX711.  *)
(*                                                                         *)
(* A double is modelled by an exact rational or one of the IEEE special    *)
(* values +Inf, -Inf, NaN; the rounding of the binary representation and   *)
(* the sign of zero are not represented.                                   *)
(***************************************************************************)
EXTENDS Integers, Sequences, FiniteSets, TLC

(***************************************************************************)
(* Bounds of the model.                                                    *)
(***************************************************************************)
\* the device presents the 24-bit patterns PatternAt(0) .. PatternAt(MaxPatternIdx)
MaxPatternIdx == 7
\* getAverageValue is called with nbr in 0 .. MaxNbr
MaxNbr == 4
\* its getRawValue calls return SampleAt(0) .. SampleAt(MaxSampleIdx)
MaxSampleIdx == 6
\* the averaged codes of the menu commands are CodeAt(0) .. CodeAt(MaxCodeIdx)
MaxCodeIdx == 3
\* the EEPROM holds one of ImageAt(0) .. ImageAt(MaxImageIdx) at power-on
MaxImageIdx == 2

(***************************************************************************)
(* Pin levels (Arduino.h).                                                 *)
(***************************************************************************)
LOW == 0
HIGH == 1

(***************************************************************************)
(* enum class CHN_GAIN { NO_CHN, CHN_A_128, CHN_B_32, CHN_A_64 }           *)
(***************************************************************************)
NO_CHN == 0
CHN_A_128 == 1
CHN_B_32 == 2
CHN_A_64 == 3
CHN_GAIN == {NO_CHN, CHN_A_128, CHN_B_32, CHN_A_64}

(***************************************************************************)
(* Fixed-width integers.  TLC's integers are 32-bit, so a 32-bit word is   *)
(* handled as its four bytes, least significant first.                     *)
(***************************************************************************)
RECURSIVE Pow2(_)
Pow2(n) == IF n = 0 THEN 1 ELSE 2 * Pow2(n - 1)

RECURSIVE BitOr(_, _)
BitOr(x, y) ==
    IF x = 0 THEN y
    ELSE IF y = 0 THEN x
    ELSE (IF x % 2 = 1 \/ y % 2 = 1 THEN 1 ELSE 0) + 2 * BitOr(x \div 2, y \div 2)

\* (uint8_t)x
ToUint8(x) == x % 256

\* (int8_t)x of a byte x
ToInt8(x) == IF x % 256 >= 128 THEN (x % 256) - 256 ELSE x % 256

\* the four bytes of an int32_t, least significant first
Int32Bytes(v) == [k \in 0..3 |-> (v \div Pow2(8 * k)) % 256]

\* the int32_t with the given four bytes
BytesInt32(w) == w[0] + 256 * w[1] + 65536 * w[2] + 16777216 * ToInt8(w[3])

\* x | y on 32-bit words
WordOr(x, y) == [k \in 0..3 |-> BitOr(x[k], y[k])]

\* x << 16 and x << 8 on 32-bit words
WordShl16(x) == [k \in 0..3 |-> IF k < 2 THEN 0 ELSE x[k - 2]]
WordShl8(x) == [k \in 0..3 |-> IF k < 1 THEN 0 ELSE x[k - 1]]

(***************************************************************************)
(* int32_t and uint8_t arithmetic.                                         *)
(***************************************************************************)
\* a + b on an int16_t (the int of the ATmega328P), wrapping
Add16(x, y) == (((x % 65536) + (y % 65536) + 32768) % 65536) - 32768

\* a + b on int32_t, wrapping; computed on 16-bit halves
Add32(x, y) ==
    LET lo == (x % 65536) + (y % 65536)
        hi == (x \div 65536) + (y \div 65536) + (lo \div 65536)
    IN  (((hi + 32768) % 65536) - 32768) * 65536 + (lo % 65536)

\* a / b on integers, b > 0: the quotient truncated toward zero
TruncDiv(x, y) == IF x >= 0 THEN x \div y ELSE -((-x) \div y)

Abs(x) == IF x < 0 THEN -x ELSE x

Sgn(x) == IF x > 0 THEN 1 ELSE IF x < 0 THEN -1 ELSE 0

RECURSIVE GCD(_, _)
GCD(x, y) == IF y = 0 THEN x ELSE GCD(y, x % y)

(***************************************************************************)
(* double: the fraction n/d in lowest terms with d > 0, or +Inf = 1/0,     *)
(* -Inf = -1/0, NaN = 0/0.                                                 *)
(***************************************************************************)
Norm(n, d) ==
    IF d = 0 THEN [n |-> Sgn(n), d |-> 0]
    ELSE LET g == GCD(Abs(n), Abs(d))
         IN  [n |-> (Sgn(d) * n) \div g, d |-> Abs(d) \div g]

\* (double)i
FromInt(i) == [n |-> i, d |-> 1]

\* -x
DNeg(x) == [n |-> -x.n, d |-> x.d]

\* x * y
DMul(x, y) == Norm(x.n * y.n, x.d * y.d)

\* x / y; the zero divisors of the program are conversions of the int 0
DDiv(x, y) ==
    IF y.d = 0 THEN DMul(x, [n |-> 0, d |-> Abs(y.n)])
    ELSE DMul(x, Norm(y.d, y.n))

\* fabs(x) > 1.0
FabsGreaterOne(x) == IF x.d = 0 THEN x.n # 0 ELSE Abs(x.n) > x.d

\* round(x): to the nearest integer, halves away from zero
DRound(x) ==
    IF x.d = 0 THEN x
    ELSE FromInt(Sgn(x.n) * ((2 * Abs(x.n) + x.d) \div (2 * x.d)))

VARIABLES
    \* HX711_GSR private members
    chn_gain, v0, vref, gramsRefWeight, m, b,
    \* the two pins
    sck, dout,
    \* the HX711: the value it shifts out, the rising clock edges it has seen
    \* since that value became ready, the channel/gain it was converted under
    devPattern, devEdges, devMode,
    \* getRawValue and readByte: position and locals
    pc, rbI, rbJ, rbValue, bytes, gainI, rawValue,
    \* observations of one getRawValue call
    pulses, samples, lineBits, callGain, prevGain, sampleMode, nReads,
    \* getAverageValue: position, argument, locals, result, the samples its
    \* getRawValue calls returned, whether it divided by zero
    avgPc, avgNbr, avgV, avgI, avgResult, reads, divByZero,
    \* the application: position, EEPROM, the last message printed and the
    \* number printed with it, the getRawValue calls of the last command,
    \* whether a zero code was captured or loaded, whether a calibration
    \* has completed or was loaded, the fields of the EEPROM record the
    \* save begun last has written, what the object held at that save once
    \* it has completed
    mpc, eeprom, msg, out, cmdReads, zeroCaptured, calibrated,
    savedFields, stored

objVars == <<chn_gain, v0, vref, gramsRefWeight, m, b>>
pinVars == <<sck, dout>>
devVars == <<devPattern, devEdges, devMode>>
readVars == <<pc, rbI, rbJ, rbValue, bytes, gainI, rawValue>>
obsVars == <<pulses, samples, lineBits, callGain, prevGain, sampleMode, nReads>>
avgVars == <<avgPc, avgNbr, avgV, avgI, avgResult, reads, divByZero>>
appVars == <<mpc, eeprom, msg, out, cmdReads, zeroCaptured, calibrated,
             savedFields, stored>>
vars == <<objVars, pinVars, devVars, readVars, obsVars, avgVars, appVars>>


(***************************************************************************)
(* The HX711 as the README describes it ("Reading the HX711"): DOUT is     *)
(* HIGH until a measured value is ready and then goes LOW; the value is    *)
(* shifted out MSB first, one bit per positive PD_SCK pulse, over 24       *)
(* pulses; 1, 2 or 3 further pulses complete the readout and set channel   *)
(* and gain for the next measurement.  A readout that appends no further   *)
(* pulse selects nothing: the next measurement keeps the mode.             *)
(***************************************************************************)
PatternAt(i) ==
    CASE i = 0 -> 8388607      \* 0x7FFFFF
      [] i = 1 -> 8388608      \* 0x800000
      [] i = 2 -> 0            \* 0x000000
      [] i = 3 -> 16777215     \* 0xFFFFFF
      [] i = 4 -> 1000         \* 0x0003E8
      [] i = 5 -> 1193046      \* 0x123456
      [] i = 6 -> 16702650     \* 0xFEDCBA
      [] i = 7 -> 65408        \* 0x00FF80
      [] OTHER -> (i * 5592405 + 1) % 16777216

Patterns == {PatternAt(i) : i \in 0..MaxPatternIdx}

\* the level of DOUT after the k-th rising edge (k = 1 is the MSB)
DevBit(p, k) == IF k <= 24 THEN (p \div Pow2(24 - k)) % 2 ELSE HIGH

\* the HX711 sees PD_SCK rise
DevRisingEdge ==
    /\ devEdges' = devEdges + 1
    /\ dout' = DevBit(devPattern, devEdges + 1)
    /\ UNCHANGED <<devPattern, devMode>>

\* the HX711 sees PD_SCK fall: once the 24 bits are out the value is no
\* longer ready
DevFallingEdge ==
    /\ dout' = IF devEdges >= 24 THEN HIGH ELSE dout
    /\ UNCHANGED <<devPattern, devEdges, devMode>>

\* the mode the pulses after the 24th have selected
DevSelectedMode == IF devEdges > 24 THEN devEdges - 24 ELSE devMode

(***************************************************************************)
(* readByte: one iteration of its loop body, split at the pin accesses.    *)
(***************************************************************************)
LSBFIRST == 0
MSBFIRST == 1

\* value |= digitalRead(dataPin) << i   or   << (7 - i)
ReadBit(value, level, i, bitOrder) ==
    IF bitOrder = LSBFIRST
        THEN ToUint8(BitOr(value, level * Pow2(i)))
        ELSE ToUint8(BitOr(value, level * Pow2(7 - i)))

\* the sign extension left out: value = bytes[2]
CombineBytesUnsigned(bs) ==
    BytesInt32(WordOr(WordOr(WordShl16(Int32Bytes(bs[2])),
                             WordShl8(Int32Bytes(bs[1]))),
                      Int32Bytes(bs[0])))

\* value = (int8_t)bytes[2];
\* value = value << 16 | (uint32_t)bytes[1] << 8 | (uint32_t)bytes[0];
\* (gcc shifts a negative int32_t as the two's-complement word)
CombineBytes(bs) ==
    BytesInt32(WordOr(WordOr(WordShl16(Int32Bytes(ToInt8(bs[2]))),
                             WordShl8(Int32Bytes(bs[1]))),
                      Int32Bytes(bs[0])))

\* the condition of the gain loop one too far: i <= (uint8_t)_chn_gain
GainLoopCondOffByOne(i) == i <= ToUint8(chn_gain)

\* the condition of the gain loop: i < (uint8_t)_chn_gain
GainLoopCond(i) == i < ToUint8(chn_gain)

\* CHN_GAIN HX711_GSR::set_chnGain(CHN_GAIN chnGain)
Set_chnGain(g) == chn_gain' = g

\* the state of an HX711_GSR object after construction
ObjInit ==
    /\ chn_gain = CHN_A_128
    /\ v0 = 0
    /\ vref = 0
    /\ gramsRefWeight = -1
    /\ b = FromInt(0)
    /\ m = FromInt(0)

\* the constructor leaves PD_SCK LOW; no measured value is ready yet
PinInit ==
    /\ sck = LOW
    /\ dout = HIGH

ReadIdle ==
    /\ pc = "idle"
    /\ rbI = 0
    /\ rbJ = 0
    /\ rbValue = 0
    /\ bytes = [k \in 0..2 |-> 0]
    /\ gainI = 0
    /\ rawValue = 0
    /\ pulses = 0
    /\ samples = 0
    /\ lineBits = 0
    /\ callGain = 0
    /\ prevGain = 0
    /\ sampleMode = 0
    /\ nReads = 0

(***************************************************************************)
(* The EEPROM record of loadCell.cpp.                                      *)
(***************************************************************************)
MAGIC_NBR == 42
ADDR_INIT_FLAG == 0
ADDR_REF_WEIGHT == 1
ADDR_V0 == 5
\* ADDR_VREF with the size of the zero code not added
ADDR_VREF_AtV0 == ADDR_V0
ADDR_VREF == 9
ADDR_CHN_GAIN == 13
EEPROM_END == 14

\* EEPROM.get(addr, x) for a uint8_t and for an int32_t x
EepromGet8(e, addr) == e[addr]

EepromGet32(e, addr) == BytesInt32([k \in 0..3 |-> e[addr + k]])

\* EEPROM.put(addr, x) for a uint8_t and for an int32_t x
EepromPut8(e, addr, x) == [e EXCEPT ![addr] = ToUint8(x)]
EepromPut32(e, addr, x) ==
    [a \in DOMAIN e |->
        IF a >= addr /\ a < addr + 4 THEN Int32Bytes(x)[a - addr] ELSE e[a]]

\* sizeof(int) of the board, an Arduino Uno
SizeofInt == 2

\* EEPROM.put(addr, x) for an int x: MAGIC_NBR is the int literal 42
EepromPutInt(e, addr, x) ==
    [a \in DOMAIN e |->
        IF a >= addr /\ a < addr + SizeofInt THEN Int32Bytes(x)[a - addr] ELSE e[a]]

\* the fields of the record after the init flag
RecordFields == {"wref", "v0", "vref", "chn_gain"}

\* an erased EEPROM
BlankEeprom == [a \in 0..(EEPROM_END - 1) |-> 255]

AppIdle ==
    /\ mpc = "loop"
    /\ eeprom = BlankEeprom
    /\ msg = ""
    /\ out = FromInt(0)
    /\ cmdReads = 0
    /\ zeroCaptured = FALSE
    /\ calibrated = FALSE
    /\ savedFields = {}
    /\ stored = <<>>

AvgIdle ==
    /\ avgPc = "idle"
    /\ avgNbr = 0
    /\ avgV = 0
    /\ avgI = 0
    /\ avgResult = 0
    /\ reads = <<>>
    /\ divByZero = FALSE

(***************************************************************************)
(* SpecRead: getRawValue pin by pin.                                       *)
(***************************************************************************)
InitRead ==
    /\ ObjInit
    /\ PinInit
    /\ devPattern = 0
    /\ devEdges = 0
    /\ devMode \in {CHN_A_128, CHN_B_32, CHN_A_64}
    /\ ReadIdle
    /\ AvgIdle
    /\ AppIdle

\* a measurement finishes while the program is not clocking the device
DeviceReady(p) ==
    /\ pc \in {"idle", "wait"}
    /\ dout = HIGH
    /\ devPattern' = p
    /\ devMode' = DevSelectedMode
    /\ devEdges' = 0
    /\ dout' = LOW
    /\ UNCHANGED <<objVars, sck, readVars, obsVars, avgVars, appVars>>

\* the application changes channel and gain between two reads
ReadSetChnGain(g) ==
    /\ pc = "idle"
    /\ Set_chnGain(g)
    /\ UNCHANGED <<v0, vref, gramsRefWeight, m, b, pinVars, devVars, readVars, obsVars,
                   avgVars, appVars>>

\* getRawValue is entered
CallGetRawValue ==
    /\ pc = "idle"
    /\ pc' = "wait"
    /\ rawValue' = 0
    /\ bytes' = [k \in 0..2 |-> 0]
    /\ rbI' = 0
    /\ rbJ' = 0
    /\ rbValue' = 0
    /\ gainI' = 0
    /\ pulses' = 0
    /\ samples' = 0
    /\ lineBits' = 0
    /\ prevGain' = callGain
    /\ callGain' = chn_gain
    /\ sampleMode' = 0
    /\ UNCHANGED <<objVars, pinVars, devVars, nReads>>
    /\ UNCHANGED <<avgVars, appVars>>

\* the wait loop left out: the read starts whatever DOUT shows
WaitReadySkipped ==
    /\ pc = "wait"
    /\ pc' = "rb_high"
    /\ sampleMode' = devMode
    /\ UNCHANGED <<objVars, pinVars, devVars, rbI, rbJ, rbValue, bytes, gainI, rawValue,
                   pulses, samples, lineBits, callGain, prevGain, nReads>>
    /\ UNCHANGED <<avgVars, appVars>>

\* while (digitalRead(_pinDOUT) != LOW) {}
WaitReady ==
    /\ pc = "wait"
    /\ dout = LOW
    /\ pc' = "rb_high"
    /\ sampleMode' = devMode
    /\ UNCHANGED <<objVars, pinVars, devVars, rbI, rbJ, rbValue, bytes, gainI, rawValue,
                   pulses, samples, lineBits, callGain, prevGain, nReads>>
    /\ UNCHANGED <<avgVars, appVars>>

\* readByte: digitalWrite(clockPin, HIGH)
ClockHigh ==
    /\ pc = "rb_high"
    /\ sck' = HIGH
    /\ DevRisingEdge
    /\ pc' = "rb_read"
    /\ UNCHANGED <<objVars, rbI, rbJ, rbValue, bytes, gainI, rawValue, obsVars>>
    /\ UNCHANGED <<avgVars, appVars>>

\* readByte: value |= digitalRead(dataPin) << (7 - i)
SampleBit ==
    /\ pc = "rb_read"
    /\ rbValue' = ReadBit(rbValue, dout, rbJ, MSBFIRST)
    /\ samples' = samples + 1
    /\ lineBits' = 2 * lineBits + dout
    /\ pc' = "rb_low"
    /\ UNCHANGED <<objVars, pinVars, devVars, rbI, rbJ, bytes, gainI, rawValue,
                   pulses, callGain, prevGain, sampleMode, nReads>>
    /\ UNCHANGED <<avgVars, appVars>>

\* readByte: digitalWrite(clockPin, LOW); the loop of readByte and, at its
\* end, bytes[2 - i] = readByte(...) and the loop of getRawValue
ClockLow ==
    /\ pc = "rb_low"
    /\ sck' = LOW
    /\ DevFallingEdge
    /\ pulses' = pulses + 1
    /\ IF rbJ + 1 < 8
         THEN /\ rbJ' = rbJ + 1
              /\ pc' = "rb_high"
              /\ UNCHANGED <<rbI, rbValue, bytes>>
         ELSE /\ bytes' = [bytes EXCEPT ![2 - rbI] = rbValue]
              /\ rbValue' = 0
              /\ rbJ' = 0
              /\ rbI' = rbI + 1
              /\ pc' = IF rbI + 1 < 3 THEN "rb_high"
                       ELSE IF GainLoopCond(0) THEN "gain_high" ELSE "ret"
    /\ UNCHANGED <<objVars, gainI, rawValue, samples, lineBits, callGain, prevGain,
                   sampleMode, nReads>>
    /\ UNCHANGED <<avgVars, appVars>>

\* the gain loop: digitalWrite(_pinPD_SCK, HIGH)
GainHigh ==
    /\ pc = "gain_high"
    /\ sck' = HIGH
    /\ DevRisingEdge
    /\ pc' = "gain_low"
    /\ UNCHANGED <<objVars, rbI, rbJ, rbValue, bytes, gainI, rawValue, obsVars>>
    /\ UNCHANGED <<avgVars, appVars>>

\* the gain loop: digitalWrite(_pinPD_SCK, LOW); i++; i < (uint8_t)_chn_gain
GainLow ==
    /\ pc = "gain_low"
    /\ sck' = LOW
    /\ DevFallingEdge
    /\ pulses' = pulses + 1
    /\ gainI' = gainI + 1
    /\ pc' = IF GainLoopCond(gainI + 1) THEN "gain_high" ELSE "ret"
    /\ UNCHANGED <<objVars, rbI, rbJ, rbValue, bytes, rawValue, samples, lineBits,
                   callGain, prevGain, sampleMode, nReads>>
    /\ UNCHANGED <<avgVars, appVars>>

\* the conversion to 32 bits and the return
ReturnRaw ==
    /\ pc = "ret"
    /\ rawValue' = CombineBytes(bytes)
    /\ pc' = "idle"
    /\ nReads' = 1
    /\ UNCHANGED <<objVars, pinVars, devVars, rbI, rbJ, rbValue, bytes, gainI,
                   pulses, samples, lineBits, callGain, prevGain, sampleMode>>
    /\ UNCHANGED <<avgVars, appVars>>

NextRead ==
    \/ \E p \in Patterns : DeviceReady(p)
    \/ \E g \in CHN_GAIN : ReadSetChnGain(g)
    \/ CallGetRawValue
    \/ WaitReady
    \/ ClockHigh
    \/ SampleBit
    \/ ClockLow
    \/ GainHigh
    \/ GainLow
    \/ ReturnRaw

SpecRead == InitRead /\ [][NextRead]_vars

\* the statements of a getRawValue call that has been entered
ReadStep ==
    \/ WaitReady
    \/ ClockHigh
    \/ SampleBit
    \/ ClockLow
    \/ GainHigh
    \/ GainLow
    \/ ReturnRaw

\* the processor keeps executing the call it is in
SpecReadLive == SpecRead /\ WF_vars(ReadStep)


(***************************************************************************)
(* Claims about getRawValue (SpecRead).                                    *)
(***************************************************************************)
\* a getRawValue call has returned and nothing has been called since
Returned == pc = "idle" /\ nReads > 0

\* a 24-bit word read as a two's-complement number
TwosComplement24(x) == IF x >= 8388608 THEN x - 16777216 ELSE x

\* C1: getRawValue returns the 24 bits sampled on the data line, first bit
\* most significant, read as a 24-bit two's-complement number: the result
\* lies in [-2^23, 2^23-1], 0x7FFFFF gives 8388607, 0x800000 gives -8388608.
C1_RawValueIsTwosComplement ==
    Returned =>
        /\ rawValue = TwosComplement24(lineBits)
        /\ rawValue >= -8388608
        /\ rawValue <= 8388607
        /\ (lineBits = 8388607 => rawValue = 8388607)
        /\ (lineBits = 8388608 => rawValue = -8388608)

C1_Witness == Returned /\ lineBits = 8388608 /\ rawValue = -8388608

\* C2: every getRawValue call drives exactly 24 + N complete HIGH-then-LOW
\* clock pulses, N the pulse count of the channel/gain stored at the call;
\* the data line is sampled once per pulse, while the clock is HIGH, in the
\* first 24 pulses only; the clock is LOW when the call returns.
C2_PulseTrain ==
    /\ [](Returned => pulses = 24 + callGain /\ samples = 24 /\ sck = LOW)
    /\ [][pc # "idle" =>
            pulses' = pulses + (IF sck = HIGH /\ sck' = LOW THEN 1 ELSE 0)]_vars
    /\ [][samples' # samples /\ pc # "idle" =>
            /\ sck = HIGH
            /\ sck' = HIGH
            /\ pulses < 24
            /\ samples' = pulses + 1]_vars

C2_Witness == Returned /\ callGain = CHN_A_64 /\ pulses = 27 /\ samples = 24

\* C9: a channel/gain change lags by one read: the sample a read returns
\* was converted under the mode the read before it selected, whatever
\* set_chnGain stored in between, and the read appends the pulse count of
\* the stored variant; set_chnGain emits no clock pulse.
C9_OneReadLag ==
    /\ [](Returned /\ prevGain # NO_CHN =>
            sampleMode = prevGain /\ pulses = 24 + callGain)
    /\ [][chn_gain' # chn_gain =>
            sck' = sck /\ pulses' = pulses /\ devEdges' = devEdges]_vars

C9_Witness ==
    /\ Returned
    /\ prevGain = CHN_A_128
    /\ callGain = CHN_B_32
    /\ sampleMode = CHN_A_128
    /\ pulses = 26

\* C15: getRawValue emits no clock pulse and samples no bit before it has
\* seen DOUT LOW; while DOUT stays HIGH the call stays in its wait loop and
\* does not drive the clock, without any timeout; once DOUT is LOW the call
\* returns (SpecReadLive).
C15_WaitsForReady ==
    /\ [](pc = "wait" => pulses = 0 /\ samples = 0)
    /\ [][pc = "wait" /\ dout = HIGH =>
            pc' = "wait" /\ sck' = sck /\ pulses' = pulses /\ samples' = samples]_vars
    /\ ((pc = "wait" /\ dout = LOW) ~> Returned)

C15_Witness == pc = "wait" /\ dout = HIGH /\ sck = LOW /\ nReads > 0


(***************************************************************************)
(* SpecAvg: getAverageValue, one pass of the do-while body per step.       *)
(* getRawValue is one step here; what it returns is the input.             *)
(***************************************************************************)
SampleAt(i) ==
    CASE i = 0 -> 100
      [] i = 1 -> 102
      [] i = 2 -> 101
      [] i = 3 -> -7
      [] i = 4 -> 2
      [] i = 5 -> 8388607
      [] i = 6 -> -8388608
      [] OTHER -> 8388607 - i

AvgSamples == {SampleAt(i) : i \in 0..MaxSampleIdx}

\* the counts getAverageValue is called with: the small ones and the
\* largest a uint8_t holds
AvgCounts == (0..MaxNbr) \cup {Pow2(8) - 1}

\* what getRawValue may return to the pass at hand: any sample in a short
\* run, the first sample again in a run longer than MaxNbr
AvgSampleInputs ==
    IF avgNbr > MaxNbr /\ reads # <<>> THEN {reads[1]} ELSE AvgSamples

\* values millis() returns
MillisValues == {0, 1, 149, 150, 151, 300}

\* what the division by a zero nbr may leave in the result
DivByZeroResults == {-1, 0}

InitAvg ==
    /\ ObjInit
    /\ PinInit
    /\ devPattern = 0
    /\ devEdges = 0
    /\ devMode = CHN_A_128
    /\ ReadIdle
    /\ AvgIdle
    /\ AppIdle

\* while (i < nbr) one too far
AvgLoopCondOffByOne(i, nbr) == i <= nbr

\* while (i < nbr)
AvgLoopCond(i, nbr) == i < nbr

\* getAverageValue(nbr) is entered: int32_t v = 0; uint8_t i = 0;
AvgCall(nbr) ==
    /\ avgPc \in {"idle", "done"}
    /\ avgPc' = "loop"
    /\ avgNbr' = nbr
    /\ avgV' = 0
    /\ avgI' = 0
    /\ avgResult' = 0
    /\ reads' = <<>>
    /\ divByZero' = FALSE
    /\ UNCHANGED <<objVars, pinVars, devVars, readVars, obsVars, appVars>>

\* do { if (millis() % 150 == 0) { v += getRawValue(); i++; } } while (i < nbr);
\* t is what millis() returns, s what getRawValue returns
AvgIterate(t, s) ==
    /\ avgPc = "loop"
    /\ IF t % 150 = 0
         THEN /\ avgV' = Add32(avgV, s)
              /\ avgI' = ToUint8(avgI + 1)
              /\ reads' = Append(reads, s)
              /\ avgPc' = IF AvgLoopCond(ToUint8(avgI + 1), avgNbr) THEN "loop" ELSE "ret"
         ELSE /\ avgPc' = IF AvgLoopCond(avgI, avgNbr) THEN "loop" ELSE "ret"
              /\ UNCHANGED <<avgV, avgI, reads>>
    /\ UNCHANGED <<avgNbr, avgResult, divByZero>>
    /\ UNCHANGED <<objVars, pinVars, devVars, readVars, obsVars, appVars>>

\* return v / nbr; the division by a zero nbr is undefined
AvgReturn(u) ==
    /\ avgPc = "ret"
    /\ avgPc' = "done"
    /\ divByZero' = (avgNbr = 0)
    /\ avgResult' = IF avgNbr = 0 THEN u ELSE TruncDiv(avgV, avgNbr)
    /\ UNCHANGED <<avgNbr, avgV, avgI, reads>>
    /\ UNCHANGED <<objVars, pinVars, devVars, readVars, obsVars, appVars>>

NextAvg ==
    \/ \E nbr \in AvgCounts : AvgCall(nbr)
    \/ \E t \in MillisValues, s \in AvgSampleInputs : AvgIterate(t, s)
    \/ \E u \in DivByZeroResults : AvgReturn(u)

SpecAvg == InitAvg /\ [][NextAvg]_vars

(***************************************************************************)
(* Claims about getAverageValue (SpecAvg).                                 *)
(***************************************************************************)
\* q[lo] + ... + q[hi], by halves
RECURSIVE RangeSum(_, _, _)
RangeSum(q, lo, hi) ==
    IF lo > hi THEN 0
    ELSE IF lo = hi THEN q[lo]
    ELSE LET mid == (lo + hi) \div 2
         IN  RangeSum(q, lo, mid) + RangeSum(q, mid + 1, hi)

SeqSum(q) == RangeSum(q, 1, Len(q))

\* q is the quotient of x by y > 0 truncated toward zero: the remainder
\* is smaller than y and has the sign of x
IsTruncatedQuotient(q, x, y) ==
    LET r == x - q * y
    IN  Abs(r) < y /\ (r = 0 \/ Sgn(r) = Sgn(x))

\* C3: getAverageValue(count), count >= 1, calls getRawValue exactly count
\* times and returns the sum of the samples divided by count, truncated
\* toward zero, however millis() paces the reads, up to count 255 of the
\* largest sample; samples 100, 102, 101, 101 with count 4 give 101.
C3_TruncatedMean ==
    avgPc = "done" /\ avgNbr >= 1 =>
        /\ Len(reads) = avgNbr
        /\ IsTruncatedQuotient(avgResult, SeqSum(reads), avgNbr)
        /\ (reads = <<100, 102, 101, 101>> => avgResult = 101)
        /\ (avgNbr = 255 /\ reads[1] = 8388607 => avgResult = 8388607)

C3_Witness == avgPc = "done" /\ reads = <<100, 102, 101, 101>> /\ avgResult = 101

\* C14: getAverageValue(0) is rejected: it reads no sample and divides by
\* nothing.
C14_ZeroCountRejected ==
    avgPc # "idle" /\ avgNbr = 0 => reads = <<>> /\ ~divByZero

\* the range of int32_t
InInt32(x) == -(Pow2(30) - 1) - (Pow2(30) - 1) - 2 <= x /\ x <= (Pow2(30) - 1) + Pow2(30)

\* the range of a sample of getRawValue: 24 bits, signed
InInt24(x) == -Pow2(23) <= x /\ x <= Pow2(23) - 1

\* C21: in getAverageValue(count), count in 1..255, with samples in
\* [-2^23, 2^23 - 1], the int32_t accumulator never leaves the int32 range
\* (it holds the sum of the samples read so far, which is within the range)
\* and the uint8_t read counter never wraps before the loop exits (it
\* holds the number of samples read so far, at most count).
C21_NoOverflowNoWrap ==
    avgPc # "idle" /\ avgNbr >= 1 /\ (\A k \in 1..Len(reads) : InInt24(reads[k])) =>
        /\ InInt32(SeqSum(reads))
        /\ avgV = SeqSum(reads)
        /\ avgI = Len(reads)
        /\ avgI <= avgNbr
        /\ (avgPc = "loop" => avgI < avgNbr)

C21_Witness ==
    /\ avgPc = "done"
    /\ avgNbr = 255
    /\ avgI = 255
    /\ reads[1] = -Pow2(23)
    /\ avgV = -255 * Pow2(23)


(***************************************************************************)
(* The calibration engine of HX711_GSR.                                    *)
(***************************************************************************)
\* a - b on int32_t
Sub32(x, y) == Add32(x, -y)

\* getAverageValue as one step: the do-while loop over the samples the
\* getRawValue calls return, sample[i] the one of call i
RECURSIVE AvgLoop(_, _, _, _)
AvgLoop(v, i, nbr, sample) ==
    LET v2 == CHOOSE x \in {Add32(v, sample[i])} : TRUE
        i2 == ToUint8(i + 1)
    IN  IF v2 \in Int /\ AvgLoopCond(i2, nbr) THEN AvgLoop(v2, i2, nbr, sample)
        ELSE TruncDiv(v2, nbr)

GetAverageValue(sample, nbr) == AvgLoop(0, 0, nbr, sample)

\* the device delivers the same code c at every read of one command
Steady(c) == [i \in 0..255 |-> c]

\* _m = (double)_gramsRefWeight / (double)(_vref - _v0)
SlopeOf(wref, zero, ref) == DDiv(FromInt(wref), FromInt(Sub32(ref, zero)))

\* calibrate with the sign of the intercept lost
InterceptOfPositive(wref, zero, ref) ==
    DDiv(DMul(FromInt(wref), FromInt(zero)), FromInt(Sub32(ref, zero)))

\* calibrate: _b = -_gramsRefWeight * (double)_v0 / (double)(_vref - _v0)
InterceptOf(wref, zero, ref) ==
    DDiv(DMul(FromInt(-wref), FromInt(zero)), FromInt(Sub32(ref, zero)))

\* calculateCoefficients with the sign of the intercept lost
InterceptFromSlopePositive(slope, zero) == DMul(slope, FromInt(zero))

\* calculateCoefficients: _b = -_m * (double)_v0
InterceptFromSlope(slope, zero) == DMul(DNeg(slope), FromInt(zero))

\* getWeight with the offset forgotten: (double)v instead of (double)(v - _v0)
WeightOfNoOffset(v, wref, zero, ref) ==
    LET w == DDiv(DMul(FromInt(wref), FromInt(v)), FromInt(Sub32(ref, zero)))
    IN  DDiv(DRound(DMul(FromInt(10), w)), FromInt(10))

\* getWeight: w = (double)_gramsRefWeight * (double)(v - _v0) / (double)(_vref - _v0);
\*            w = round(10.0 * w) / 10.0
WeightOf(v, wref, zero, ref) ==
    LET w == DDiv(DMul(FromInt(wref), FromInt(Sub32(v, zero))),
                  FromInt(Sub32(ref, zero)))
    IN  DDiv(DRound(DMul(FromInt(10), w)), FromInt(10))

(***************************************************************************)
(* Spec: loadCell.cpp, setup() and then one menu command per step.         *)
(***************************************************************************)
\* const uint32_t maxLoad = 1000, the gramsMaxLoad of myScale
maxLoad == 1000

CodeAt(i) ==
    CASE i = 0 -> 0
      [] i = 1 -> 1000
      [] i = 2 -> 3000
      [] i = 3 -> 2000
      [] OTHER -> -1000 * (i - 3)

Codes == {CodeAt(i) : i \in 0..MaxCodeIdx}

\* the record storeCalibrationData leaves; the images below are records
\* stored after a calibrate command has run
Image(flag, wref, zero, ref, chnGain) ==
    EepromPut8(
        EepromPut32(
            EepromPut32(
                EepromPut32(
                    EepromPutInt(BlankEeprom, ADDR_INIT_FLAG, flag),
                    ADDR_REF_WEIGHT, wref),
                ADDR_V0, zero),
            ADDR_VREF, ref),
        ADDR_CHN_GAIN, chnGain)

ImageAt(i) ==
    CASE i = 0 -> BlankEeprom
      [] i = 1 -> Image(MAGIC_NBR, 500, 1000, 3000, CHN_A_64)
      [] i = 2 -> Image(MAGIC_NBR, 1000, 2000, 2000, CHN_B_32)
      [] i = 3 -> Image(MAGIC_NBR, 100, 3000, 1000, CHN_A_128)
      [] OTHER -> Image(MAGIC_NBR, 5000, -1000, 1000, NO_CHN)

EepromImages == {ImageAt(i) : i \in 0..MaxImageIdx}

\* the averaged codes of the tare and of the calibrate command of SpecStore
StoreZeroCodes == {-1000}
StoreRefCodes == {-800}

\* getAverageValue(nbr) for the nbr of the menu commands, by delivered code
Average8 == [c \in Codes \cup StoreZeroCodes \cup StoreRefCodes |-> GetAverageValue(Steady(c), 8)]
Average16 == [c \in Codes \cup StoreZeroCodes \cup StoreRefCodes |-> GetAverageValue(Steady(c), 16)]
Average32 == [c \in Codes \cup StoreZeroCodes \cup StoreRefCodes |-> GetAverageValue(Steady(c), 32)]

\* what Serial.parseInt returns in the loop of enterRefWeight
RefInputs == {0, 99, 100, 500, 1000, 1001}

ParsedInputs == {<<>>, <<99, 500>>, <<500, 1001>>} \cup {<<x>> : x \in RefInputs}

Init ==
    /\ ObjInit
    /\ PinInit
    /\ devPattern = 0
    /\ devEdges = 0
    /\ devMode = CHN_A_128
    /\ ReadIdle
    /\ AvgIdle
    /\ mpc = "setup"
    /\ eeprom \in EepromImages
    /\ msg = ""
    /\ out = FromInt(0)
    /\ cmdReads = 0
    /\ zeroCaptured = FALSE
    /\ calibrated = FALSE
    /\ IF EepromGet8(eeprom, ADDR_INIT_FLAG) = MAGIC_NBR
         THEN /\ savedFields = RecordFields
              /\ stored = <<EepromGet32(eeprom, ADDR_REF_WEIGHT),
                            EepromGet32(eeprom, ADDR_V0),
                            EepromGet32(eeprom, ADDR_VREF),
                            EepromGet8(eeprom, ADDR_CHN_GAIN)>>
         ELSE /\ savedFields = {}
              /\ stored = <<>>

\* what no command of this specification touches
AppFrame ==
    UNCHANGED <<dout, devVars, readVars, obsVars, avgPc, avgNbr, avgV, avgI, reads,
                eeprom, savedFields, stored>>

\* setup(): initScale(), showMenu()
Setup ==
    /\ mpc = "setup"
    /\ mpc' = "loop"
    /\ IF EepromGet8(eeprom, ADDR_INIT_FLAG) = MAGIC_NBR
         THEN /\ gramsRefWeight' = EepromGet32(eeprom, ADDR_REF_WEIGHT)
              /\ v0' = EepromGet32(eeprom, ADDR_V0)
              /\ vref' = EepromGet32(eeprom, ADDR_VREF)
              /\ Set_chnGain(EepromGet8(eeprom, ADDR_CHN_GAIN))
              /\ m' = SlopeOf(gramsRefWeight', v0', vref')
              /\ b' = InterceptFromSlope(m', v0')
              /\ divByZero' = (vref' = v0')
              /\ zeroCaptured' = TRUE
              /\ calibrated' = TRUE
         ELSE UNCHANGED <<objVars, divByZero, zeroCaptured, calibrated>>
    /\ msg' = "menu"
    /\ UNCHANGED <<sck, out, cmdReads, avgResult>>
    /\ AppFrame

\* refWeight < getMaxLoad() / 10 || refWeight > getMaxLoad(), bounds excluded
RefWeightOutOfRangeStrict(refWeight) ==
    refWeight <= TruncDiv(maxLoad, 10) \/ refWeight >= maxLoad

\* refWeight < getMaxLoad() / 10 || refWeight > getMaxLoad()
RefWeightOutOfRange(refWeight) ==
    refWeight < TruncDiv(maxLoad, 10) \/ refWeight > maxLoad

\* enterRefWeight(); parsed are the values Serial.parseInt returns
EnterRefWeight(parsed) ==
    /\ mpc = "loop"
    /\ LET refWeight == IF parsed = <<>> THEN -1 ELSE parsed[Len(parsed)]
       IN  /\ out' = FromInt(refWeight)
           /\ IF RefWeightOutOfRange(refWeight)
                THEN /\ msg' = "Value out of range"
                     /\ UNCHANGED gramsRefWeight
                ELSE /\ gramsRefWeight' = refWeight
                     /\ msg' = "Reference weight set"
    /\ cmdReads' = 0
    /\ divByZero' = FALSE
    /\ UNCHANGED <<chn_gain, v0, vref, m, b, sck, mpc, avgResult, zeroCaptured, calibrated>>
    /\ AppFrame

\* setZero(): myScale.setZero(32)
SetZero(c) ==
    /\ mpc = "loop"
    /\ avgResult' = Average32[c]
    /\ v0' = avgResult'
    /\ sck' = LOW
    /\ cmdReads' = 32
    /\ msg' = "v0"
    /\ out' = FromInt(0)
    /\ divByZero' = FALSE
    /\ zeroCaptured' = TRUE
    /\ UNCHANGED <<chn_gain, vref, gramsRefWeight, m, b, mpc, calibrated>>
    /\ AppFrame

\* the first test of calibrate() with the sentinel itself let through
RefWeightUnsetStrict == gramsRefWeight < -1

\* calibrate(): myScale.get_wref() < 0
RefWeightUnset == gramsRefWeight < 0

\* calibrate(): myScale.get_v0() == 0
ZeroUnset == v0 = 0

\* calibrate(): the tests, then myScale.calibrate(16) and the slope test
Calibrate(c) ==
    /\ mpc = "loop"
    /\ out' = FromInt(0)
    /\ IF RefWeightUnset
         THEN /\ msg' = "First enter reference weight!"
              /\ cmdReads' = 0
              /\ divByZero' = FALSE
              /\ UNCHANGED <<vref, m, b, sck, avgResult, calibrated>>
         ELSE IF ZeroUnset
         THEN /\ msg' = "First Set 0 (Tare)"
              /\ cmdReads' = 0
              /\ divByZero' = FALSE
              /\ UNCHANGED <<vref, m, b, sck, avgResult, calibrated>>
         ELSE /\ avgResult' = Average16[c]
              /\ vref' = avgResult'
              /\ m' = SlopeOf(gramsRefWeight, v0, vref')
              /\ b' = InterceptOf(gramsRefWeight, v0, vref')
              /\ divByZero' = (vref' = v0)
              /\ sck' = LOW
              /\ cmdReads' = 16
              /\ calibrated' = TRUE
              /\ msg' = IF FabsGreaterOne(m')
                          THEN "First Calibrate with Reference Weight"
                          ELSE "Calibrated"
    /\ UNCHANGED <<chn_gain, v0, gramsRefWeight, mpc, zeroCaptured>>
    /\ AppFrame

\* getWeight(): myScale.getWeight(8)
GetWeight(c) ==
    /\ mpc = "loop"
    /\ avgResult' = Average8[c]
    /\ out' = WeightOf(avgResult', gramsRefWeight, v0, vref)
    /\ divByZero' = (vref = v0)
    /\ sck' = LOW
    /\ cmdReads' = 8
    /\ msg' = "weight"
    /\ UNCHANGED <<objVars, mpc, zeroCaptured, calibrated>>
    /\ AppFrame

\* getValue(): myScale.getAverageValue(16)
GetValue(c) ==
    /\ mpc = "loop"
    /\ avgResult' = Average16[c]
    /\ out' = FromInt(avgResult')
    /\ divByZero' = FALSE
    /\ sck' = LOW
    /\ cmdReads' = 16
    /\ msg' = "value"
    /\ UNCHANGED <<objVars, mpc, zeroCaptured, calibrated>>
    /\ AppFrame

\* showEquation(): myScale.printEquation()
ShowEquation ==
    /\ mpc = "loop"
    /\ msg' = "weight = m * v + b"
    /\ out' = FromInt(0)
    /\ cmdReads' = 0
    /\ divByZero' = FALSE
    /\ UNCHANGED <<objVars, sck, mpc, avgResult, zeroCaptured, calibrated>>
    /\ AppFrame

Next ==
    \/ Setup
    \/ \E parsed \in ParsedInputs : EnterRefWeight(parsed)
    \/ \E c \in Codes : SetZero(c)
    \/ \E c \in Codes : Calibrate(c)
    \/ \E c \in Codes : GetWeight(c)
    \/ \E c \in Codes : GetValue(c)
    \/ ShowEquation

Spec == Init /\ [][Next]_vars


(***************************************************************************)
(* Claims about the calibration engine and its menu commands (Spec).       *)
(* Every command prints its own messages, so the message a step leaves     *)
(* tells which command the step was.                                       *)
(***************************************************************************)
RefWeightMsgs == {"Value out of range", "Reference weight set"}

CalibrateMsgs ==
    {"First enter reference weight!", "First Set 0 (Tare)",
     "First Calibrate with Reference Weight", "Calibrated"}

\* C4: enterRefWeight accepts grams exactly when maxLoad/10 <= grams <=
\* maxLoad (100..1000 accepted, 99 and 1001 rejected); accepted, the
\* reference weight becomes grams; rejected, a range error is printed and
\* reference weight, zero code, reference code, slope, intercept and
\* channel/gain stay as they were.
C4_RefWeightValidation ==
    [][msg' \in RefWeightMsgs =>
        LET grams == out'.n
            accepted == msg' = "Reference weight set"
        IN  /\ accepted <=> (maxLoad <= 10 * grams /\ grams <= maxLoad)
            /\ grams \in 100..1000 => accepted
            /\ grams \in {99, 1001} => ~accepted
            /\ accepted => gramsRefWeight' = grams
            /\ ~accepted => UNCHANGED <<gramsRefWeight, v0, vref, m, b, chn_gain>>]_vars

C4_Witness ==
    /\ msg = "Value out of range"
    /\ out = FromInt(1001)
    /\ gramsRefWeight = 100
    /\ calibrated

\* C5: calibrate while the reference weight is the unset sentinel -1
\* prints the precondition error, reads no sample and leaves reference
\* code, slope and intercept untouched.
C5_CalibrateNeedsRefWeight ==
    [][msg' \in CalibrateMsgs /\ gramsRefWeight = -1 =>
        /\ msg' = "First enter reference weight!"
        /\ cmdReads' = 0
        /\ UNCHANGED <<vref, m, b>>]_vars

C5_Witness ==
    /\ msg = "First enter reference weight!"
    /\ gramsRefWeight = -1
    /\ zeroCaptured
    /\ v0 # 0
    /\ cmdReads = 0

\* C6: with a valid reference weight set, calibrate is refused as "zero
\* not set" exactly when no zero code was captured by a tare or loaded
\* from storage, whatever the value of the captured zero code.
C6_ZeroPrecondition ==
    [][msg' \in CalibrateMsgs /\ gramsRefWeight >= 0 =>
        (msg' = "First Set 0 (Tare)" <=> ~zeroCaptured)]_vars

\* C7: no division by (refCode - zeroCode) is executed while refCode
\* equals zeroCode, in calibrate, getWeight or calculateCoefficients.
C7_NoDivisionByZero == ~divByZero

\* C8: once a calibration has completed or was loaded, slope and intercept
\* are those of the current zero code, reference code and reference weight.
C8_CoefficientsCurrent ==
    calibrated =>
        /\ m = SlopeOf(gramsRefWeight, v0, vref)
        /\ b = InterceptOf(gramsRefWeight, v0, vref)

\* C10: with zeroCode # refCode, getWeight gives 0 for an averaged code
\* equal to zeroCode and refWeightGrams for one equal to refCode; zeroCode
\* 1000, refCode 3000, refWeightGrams 500 give 250.0 for code 2000.
C10_WeightAtReferencePoints ==
    msg = "weight" /\ vref # v0 =>
        /\ avgResult = v0 => out = FromInt(0)
        /\ avgResult = vref => out = FromInt(gramsRefWeight)
        /\ (v0 = 1000 /\ vref = 3000 /\ gramsRefWeight = 500 /\ avgResult = 2000)
               => out = FromInt(250)

C10_Witness ==
    /\ msg = "weight"
    /\ v0 = 1000
    /\ vref = 3000
    /\ gramsRefWeight = 500
    /\ avgResult = 2000
    /\ out = FromInt(250)


(***************************************************************************)
(* SpecLib: the calibration methods of HX711_GSR called directly, over     *)
(* codes that include both ends of the 24-bit range.  mpc tells whether a  *)
(* setter, calculateCoefficients or calibrate returned last.               *)
(***************************************************************************)
\* the codes handed to set_v0 and set_vref and averaged by calibrate
LibCodes == {0, 1000, 3000, 8388607, -8388608}

\* the reference weights handed to set_wref
LibWeights == {100, 120}

InitLib ==
    /\ ObjInit
    /\ PinInit
    /\ devPattern = 0
    /\ devEdges = 0
    /\ devMode = CHN_A_128
    /\ ReadIdle
    /\ AvgIdle
    /\ AppIdle

LibFrame ==
    UNCHANGED <<chn_gain, pinVars, devVars, readVars, obsVars, avgPc, avgNbr,
                avgV, avgI, reads, eeprom, msg, out, cmdReads, zeroCaptured,
                calibrated, savedFields, stored>>

\* set_v0(x)
LibSet_v0(x) ==
    /\ v0' = x
    /\ mpc' = "set"
    /\ UNCHANGED <<vref, gramsRefWeight, m, b, avgResult, divByZero>>
    /\ LibFrame

\* set_vref(x)
LibSet_vref(x) ==
    /\ vref' = x
    /\ mpc' = "set"
    /\ UNCHANGED <<v0, gramsRefWeight, m, b, avgResult, divByZero>>
    /\ LibFrame

\* set_wref(w)
LibSet_wref(w) ==
    /\ gramsRefWeight' = w
    /\ mpc' = "set"
    /\ UNCHANGED <<v0, vref, m, b, avgResult, divByZero>>
    /\ LibFrame

\* calculateCoefficients()
LibCalculateCoefficients ==
    /\ m' = SlopeOf(gramsRefWeight, v0, vref)
    /\ b' = InterceptFromSlope(m', v0)
    /\ divByZero' = (vref = v0)
    /\ mpc' = "calculateCoefficients"
    /\ UNCHANGED <<v0, vref, gramsRefWeight, avgResult>>
    /\ LibFrame

\* calibrate(nbr), getAverageValue(nbr) returning c
LibCalibrate(c) ==
    /\ avgResult' = c
    /\ vref' = c
    /\ m' = SlopeOf(gramsRefWeight, v0, vref')
    /\ b' = InterceptOf(gramsRefWeight, v0, vref')
    /\ divByZero' = (vref' = v0)
    /\ mpc' = "calibrate"
    /\ UNCHANGED <<v0, gramsRefWeight>>
    /\ LibFrame

NextLib ==
    \/ \E x \in LibCodes : LibSet_v0(x)
    \/ \E x \in LibCodes : LibSet_vref(x)
    \/ \E w \in LibWeights : LibSet_wref(w)
    \/ LibCalculateCoefficients
    \/ \E c \in LibCodes : LibCalibrate(c)

SpecLib == InitLib /\ [][NextLib]_vars

(***************************************************************************)
(* Claims about the coefficients (SpecLib).                                *)
(***************************************************************************)
\* x + y
DAdd(x, y) ==
    IF x.d = 0 THEN (IF y.d = 0 /\ y.n # x.n THEN [n |-> 0, d |-> 0] ELSE x)
    ELSE IF y.d = 0 THEN y
    ELSE LET g == GCD(x.d, y.d)
         IN  Norm(x.n * (y.d \div g) + y.n * (x.d \div g), (x.d \div g) * y.d)

\* the line of the README, weight = wref * (v - v0) / (vref - v0)
LineAt(v, wref, zero, ref) ==
    DDiv(DMul(FromInt(wref), FromInt(Sub32(v, zero))), FromInt(Sub32(ref, zero)))

StoreParsed == {<<100>>, <<500>>}

InitStore ==
    /\ ObjInit
    /\ PinInit
    /\ devPattern = 0
    /\ devEdges = 0
    /\ devMode = CHN_A_128
    /\ ReadIdle
    /\ AvgIdle
    /\ mpc = "setup"
    /\ eeprom = BlankEeprom
    /\ msg = ""
    /\ out = FromInt(0)
    /\ cmdReads = 0
    /\ zeroCaptured = FALSE
    /\ calibrated = FALSE
    /\ savedFields = {}
    /\ stored = <<>>

\* setChnA128(), setChnA64(), setChnB32()
SetChn(g, text) ==
    /\ mpc = "loop"
    /\ Set_chnGain(g)
    /\ msg' = text
    /\ out' = FromInt(0)
    /\ cmdReads' = 0
    /\ divByZero' = FALSE
    /\ UNCHANGED <<v0, vref, gramsRefWeight, m, b, sck, mpc, avgResult,
                   zeroCaptured, calibrated>>
    /\ AppFrame

SetChnA128 == SetChn(CHN_A_128, "Set channel A with gain 128")

SetChnA64 == SetChn(CHN_A_64, "Set channel A with gain 64")

SetChnB32 == SetChn(CHN_B_32, "Set channel B with gain 32")

\* what a step of storeCalibrationData leaves alone
StoreFrame ==
    UNCHANGED <<objVars, pinVars, devVars, readVars, obsVars, avgVars, out,
                zeroCaptured, calibrated>>

\* storeCalibrationData(): EEPROM.put(ADDR_INIT_FLAG, MAGIC_NBR)
StoreInitFlag ==
    /\ mpc = "loop"
    /\ mpc' = "put_wref"
    /\ eeprom' = EepromPutInt(eeprom, ADDR_INIT_FLAG, MAGIC_NBR)
    /\ savedFields' = {}
    /\ stored' = <<>>
    /\ cmdReads' = 0
    /\ UNCHANGED msg
    /\ StoreFrame

\* EEPROM.put(ADDR_REF_WEIGHT, myScale.get_wref())
StoreRefWeight ==
    /\ mpc = "put_wref"
    /\ mpc' = "put_v0"
    /\ eeprom' = EepromPut32(eeprom, ADDR_REF_WEIGHT, gramsRefWeight)
    /\ savedFields' = savedFields \cup {"wref"}
    /\ UNCHANGED <<msg, cmdReads, stored>>
    /\ StoreFrame

\* EEPROM.put(ADDR_V0, myScale.get_v0())
StoreV0 ==
    /\ mpc = "put_v0"
    /\ mpc' = "put_vref"
    /\ eeprom' = EepromPut32(eeprom, ADDR_V0, v0)
    /\ savedFields' = savedFields \cup {"v0"}
    /\ UNCHANGED <<msg, cmdReads, stored>>
    /\ StoreFrame

\* EEPROM.put(ADDR_VREF, myScale.get_vref())
StoreVref ==
    /\ mpc = "put_vref"
    /\ mpc' = "put_chn_gain"
    /\ eeprom' = EepromPut32(eeprom, ADDR_VREF, vref)
    /\ savedFields' = savedFields \cup {"vref"}
    /\ UNCHANGED <<msg, cmdReads, stored>>
    /\ StoreFrame

\* EEPROM.put(ADDR_CHN_GAIN, chnGain); Serial.print("Calibration Data stored ")
StoreChnGain ==
    /\ mpc = "put_chn_gain"
    /\ mpc' = "loop"
    /\ eeprom' = EepromPut8(eeprom, ADDR_CHN_GAIN, chn_gain)
    /\ savedFields' = savedFields \cup {"chn_gain"}
    /\ stored' = <<gramsRefWeight, v0, vref, chn_gain>>
    /\ msg' = "Calibration Data stored"
    /\ UNCHANGED cmdReads
    /\ StoreFrame

\* the power is lost and comes back: the object is constructed anew, the
\* EEPROM keeps what was written, setup() is next
PowerCycle ==
    /\ mpc # "setup"
    /\ mpc' = "setup"
    /\ chn_gain' = CHN_A_128
    /\ v0' = 0
    /\ vref' = 0
    /\ gramsRefWeight' = -1
    /\ b' = FromInt(0)
    /\ m' = FromInt(0)
    /\ sck' = LOW
    /\ msg' = ""
    /\ out' = FromInt(0)
    /\ cmdReads' = 0
    /\ avgResult' = 0
    /\ divByZero' = FALSE
    /\ zeroCaptured' = FALSE
    /\ calibrated' = FALSE
    /\ AppFrame

NextStore ==
    \/ Setup
    \/ \E parsed \in StoreParsed : EnterRefWeight(parsed)
    \/ \E c \in StoreZeroCodes : SetZero(c)
    \/ \E c \in StoreRefCodes : Calibrate(c)
    \/ SetChnA128
    \/ SetChnA64
    \/ SetChnB32
    \/ StoreInitFlag
    \/ StoreRefWeight
    \/ StoreV0
    \/ StoreVref
    \/ StoreChnGain
    \/ PowerCycle

SpecStore == InitStore /\ [][NextStore]_vars


(***************************************************************************)
(* Claims about the reference weight and the stored record (SpecStore).    *)
(***************************************************************************)
\* C12: in every reachable state, the one initScale produces from the
\* stored record included, the reference weight is negative (unset) or
\* lies in maxLoad/10 .. maxLoad.
C12_RefWeightInRange ==
    \/ gramsRefWeight < 0
    \/ /\ TruncDiv(maxLoad, 10) <= gramsRefWeight
       /\ gramsRefWeight <= maxLoad

\* C13: when storeCalibrationData has run to completion, the next start-up
\* restores reference weight, zero code, reference code and channel/gain
\* to the values they had when stored; when the init flag is not the magic
\* number, start-up leaves every field at its default.
C13_PersistenceRoundTrip ==
    [][mpc = "setup" /\ mpc' = "loop" =>
        /\ savedFields = RecordFields =>
              <<gramsRefWeight', v0', vref', chn_gain'>> = stored
        /\ EepromGet8(eeprom, ADDR_INIT_FLAG) # MAGIC_NBR =>
              /\ gramsRefWeight' = -1
              /\ v0' = 0
              /\ vref' = 0
              /\ m' = FromInt(0)
              /\ b' = FromInt(0)
              /\ chn_gain' = CHN_A_128]_vars

C13_Witness ==
    /\ mpc = "loop"
    /\ msg = "menu"
    /\ savedFields = RecordFields
    /\ stored = <<100, -1000, -800, CHN_A_64>>
    /\ gramsRefWeight = 100
    /\ v0 = -1000
    /\ vref = -800
    /\ chn_gain = CHN_A_64

\* C20: when the calibrate command ends with an error message (reference
\* weight not entered, zero not set, slope test failed), reference code,
\* slope and intercept are as before the command.
C20_FailedCalibrateChangesNothing ==
    [][msg' \in CalibrateMsgs \ {"Calibrated"} => UNCHANGED <<vref, m, b>>]_vars

\* C19: at every point of execution the stored init flag is the magic
\* number only if every field of the stored record was written by the
\* save begun last, that is, only if that save has completed.
C19_MarkerOnlyAfterCompleteSave ==
    EepromGet8(eeprom, ADDR_INIT_FLAG) = MAGIC_NBR => savedFields = RecordFields


(***************************************************************************)
(* SpecPower: the power commands among the commands that read the HX711.   *)
(* powerdown() is two steps, one per digitalWrite.  What a read delivers   *)
(* when it is started with PD_SCK HIGH is left open: any code.             *)
(***************************************************************************)
\* the levels powerdown() writes to PD_SCK, in reverse order
PowerdownWritesReversed == <<HIGH, LOW>>

\* the levels powerdown() writes to PD_SCK
PowerdownWrites == <<LOW, HIGH>>

\* powerDown(): myScale.powerdown(), digitalWrite(_pinPD_SCK, LOW)
PowerDownLow ==
    /\ mpc = "loop"
    /\ mpc' = "powerdown"
    /\ sck' = PowerdownWrites[1]
    /\ cmdReads' = 0
    /\ UNCHANGED <<objVars, msg, out, avgResult, divByZero, zeroCaptured, calibrated>>
    /\ AppFrame

\* powerdown(): digitalWrite(_pinPD_SCK, HIGH); Serial.print("Ppower down mode set ")
PowerDownHigh ==
    /\ mpc = "powerdown"
    /\ mpc' = "loop"
    /\ sck' = PowerdownWrites[2]
    /\ msg' = "Ppower down mode set"
    /\ out' = FromInt(0)
    /\ divByZero' = FALSE
    /\ UNCHANGED <<objVars, cmdReads, avgResult, zeroCaptured, calibrated>>
    /\ AppFrame

\* powerUp(): myScale.powerup(), digitalWrite(_pinPD_SCK, LOW)
PowerUp ==
    /\ mpc = "loop"
    /\ sck' = LOW
    /\ msg' = "Normal mode set"
    /\ out' = FromInt(0)
    /\ cmdReads' = 0
    /\ divByZero' = FALSE
    /\ UNCHANGED <<objVars, mpc, avgResult, zeroCaptured, calibrated>>
    /\ AppFrame

NextPower ==
    \/ Setup
    \/ \E parsed \in StoreParsed : EnterRefWeight(parsed)
    \/ \E c \in StoreZeroCodes : SetZero(c)
    \/ \E c \in StoreRefCodes : Calibrate(c)
    \/ \E c \in StoreZeroCodes \cup StoreRefCodes : GetWeight(c)
    \/ \E c \in StoreZeroCodes \cup StoreRefCodes : GetValue(c)
    \/ PowerDownLow
    \/ PowerDownHigh
    \/ PowerUp

SpecPower == InitStore /\ [][NextPower]_vars

(***************************************************************************)
(* Claims about the power commands (SpecPower).                            *)
(***************************************************************************)
\* C16: after construction PD_SCK is LOW; powerdown() drives PD_SCK LOW,
\* then HIGH, and leaves it HIGH; powerup() leaves it LOW; neither changes
\* zero code, reference code, reference weight, slope, intercept or
\* channel/gain.
C16_PowerPinLevels ==
    /\ [](mpc = "setup" => sck = LOW)
    /\ [][mpc = "loop" /\ mpc' = "powerdown" =>
            sck' = LOW /\ UNCHANGED objVars]_vars
    /\ [][mpc = "powerdown" =>
            /\ mpc' = "loop"
            /\ sck' = HIGH
            /\ msg' = "Ppower down mode set"
            /\ UNCHANGED objVars]_vars
    /\ [][msg' = "Normal mode set" => sck' = LOW /\ UNCHANGED objVars]_vars

C16_Witness ==
    /\ mpc = "loop"
    /\ msg = "Ppower down mode set"
    /\ sck = HIGH
    /\ calibrated
    /\ gramsRefWeight = 100

\* C17: every command that reads the HX711 starts with PD_SCK LOW, the
\* device not in power-down: no read starts between a power-down command
\* and the next power-up command.
C17_ReadsStartClockLow ==
    [][cmdReads' > 0 => sck = LOW]_vars

=============================================================================
